---- MODULE Spec2Model ----
(***************************************************************************)
(* Model of src/src/react-simple-auth.ts: the popup based session          *)
(* acquisition (acquireTokenAsync with its message callback and its        *)
(* checkWindow polling loop) and the storage backed operations             *)
(* restoreSession, invalidateSession and getAccessToken.                   *)
(*                                                                         *)
(* The collaborators the service is handed (Storage, the window host and   *)
(* the IProvider) are modelled at their interface: Storage is a partial    *)
(* function from keys to strings, a popup is one of null/open/closed, and  *)
(* the provider is a fixed table over a small set of redirect payloads,    *)
(* except validateSession, whose answer (it depends on the clock) is       *)
(* chosen at each call.                                                    *)
(***************************************************************************)
EXTENDS Integers, Sequences, FiniteSets, TLC

(* Number of acquireTokenAsync calls a behaviour may make. *)
MaxAttempts == 2

Attempts == 1..MaxAttempts

VARIABLES
  store,               \* Storage: partial function key -> string
  providerOrigin,      \* what provider.getOrigin() returns
  loginWindow,         \* per attempt: "none" (not called), "null", "open", "closed"
  listener,            \* per attempt: callback registered on localWindow
  timer,               \* per attempt: a setTimeout(checkWindow) is pending
  status,              \* per attempt: promise "notcalled", "pending", "resolved", "rejected"
  value,               \* per attempt: what the promise settled with
  acks,                \* per attempt: number of 'done' replies posted to the popup
  extractErrorCalls,   \* per attempt: calls of provider.extractError
  extractSessionCalls, \* per attempt: calls of provider.extractSession
  uncaught,            \* per attempt: an exception escaped a timer callback
  storageCalls,        \* per attempt: calls it made of getItem/setItem/removeItem
  authentic,           \* per attempt, history: an authentic message was
                       \* delivered while its popup was open
  ret                  \* how the restoreSession or getAccessToken call of the
                       \* last step ended; NoValue after any other step

vars == <<store, providerOrigin, loginWindow, listener, timer, status, value,
          acks, extractErrorCalls, extractSessionCalls, uncaught, storageCalls,
          authentic, ret>>

----------------------------------------------------------------------------
(* Values.  Everything a promise settles with or a call returns is a record *)
(* so that any two of them can be compared.                                 *)

sessionKey == "session"

ProductName == "app"

Undefined == [undefined |-> TRUE]

NoValue == [novalue |-> TRUE]

RejectFalse == [boolean |-> FALSE]

ClosedError ==
  [error |-> ProductName \o ": Login window was closed by the user or authentication was incomplete and never reached final redirect page."]

NoSessionError(resourceId) ==
  [error |-> "You attempted to get access token for resource id: " \o resourceId
             \o " from the session but the session did not exist"]

SyntaxError == [error |-> "SyntaxError"]

(* guid(): one key per call; the keys of different calls are taken to differ. *)
requestKey(a) == "react-simple-auth-request-key-" \o ToString(a)

----------------------------------------------------------------------------
(* Storage *)

getItemIsNonEmptyString(st, k) == k \in DOMAIN st /\ st[k] # ""

setItem(st, k, v) == [x \in DOMAIN st \cup {k} |-> IF x = k THEN v ELSE st[x]]

removeItem(st, k) == [x \in DOMAIN st \ {k} |-> st[x]]

----------------------------------------------------------------------------
(* The provider, as a table over the redirect payloads the popup can relay. *)

PayloadA == "#access_token=abc&expires_in=3600"
PayloadB == "#access_token=xyz&expires_in=60"
PayloadDenied == "#error=access_denied"

Payloads == {"", PayloadA, PayloadB, PayloadDenied}

SessionA == [accessToken |-> "abc", expiresIn |-> 3600]
SessionB == [accessToken |-> "xyz", expiresIn |-> 60]

Sessions == {SessionA, SessionB}

(* A provider call may also end in an exception; which one does, if any,   *)
(* is chosen at each run of checkWindow.                                   *)
ProviderFailures == {"none", "extractError", "extractSession"}

extractError(redirectUrl) ==
  IF redirectUrl = PayloadDenied
  THEN [error |-> "access_denied", from |-> "provider"]
  ELSE Undefined

extractSession(redirectUrl) ==
  IF redirectUrl = PayloadA THEN SessionA ELSE SessionB

providerGetAccessToken(session, resourceId) ==
  [token |-> session.accessToken, resource |-> resourceId]

Origins == {[defined |-> FALSE, value |-> ""],
            [defined |-> TRUE, value |-> "https://idp.example"]}

(* JavaScript truthiness of the string | undefined that getOrigin() returns *)
Truthy(origin) == origin.defined /\ origin.value # ""

----------------------------------------------------------------------------
(* JSON.stringify / JSON.parse on session records *)

JSONstringify(session) ==
  "{\"accessToken\":\"" \o session.accessToken \o "\",\"expiresIn\":"
    \o ToString(session.expiresIn) \o "}"

JSONparseThrows(text) == \A s \in Sessions : JSONstringify(s) # text

JSONparse(text) == CHOOSE s \in Sessions : JSONstringify(s) = text

CorruptText == "{\"accessToken\":"

(* What the fixed session slot may hold when the page loads. *)
InitialSessionTexts == {"", CorruptText} \cup {JSONstringify(s) : s \in Sessions}

----------------------------------------------------------------------------
Init ==
  /\ \E keys \in {{}, {sessionKey}} : \E t \in InitialSessionTexts :
        store = [k \in keys |-> t]
  /\ providerOrigin \in Origins
  /\ loginWindow = [a \in Attempts |-> "none"]
  /\ listener = [a \in Attempts |-> FALSE]
  /\ timer = [a \in Attempts |-> FALSE]
  /\ status = [a \in Attempts |-> "notcalled"]
  /\ value = [a \in Attempts |-> NoValue]
  /\ acks = [a \in Attempts |-> 0]
  /\ extractErrorCalls = [a \in Attempts |-> 0]
  /\ extractSessionCalls = [a \in Attempts |-> 0]
  /\ uncaught = [a \in Attempts |-> FALSE]
  /\ storageCalls = [a \in Attempts |-> 0]
  /\ authentic = [a \in Attempts |-> FALSE]
  /\ ret = NoValue

----------------------------------------------------------------------------
(* acquireTokenAsync: the message listener *)

EventOrigins == {"https://idp.example", "https://evil.example"}

(* event.source is "none" (absent), "notself" (something whose self is not *)
(* itself) or "window".                                                    *)
WindowNames == {requestKey(a) : a \in Attempts} \cup {"other"}

(* The messages delivered to localWindow.  A message with no source has no *)
(* window name.  The origin is only ever compared with the provider's, so  *)
(* the messages of the other origin and the ones that do not come from a   *)
(* window all carry PayloadA; a window of the provider's origin sends any  *)
(* payload under any name.                                                 *)
Events ==
  [origin : EventOrigins, source : {"none"}, name : {"other"}, data : {PayloadA}]
  \cup [origin : {"https://idp.example"}, source : {"notself"},
        name : WindowNames, data : {PayloadA}]
  \cup [origin : {"https://evil.example"}, source : {"window"},
        name : WindowNames, data : {PayloadA}]
  \cup [origin : {"https://idp.example"}, source : {"window"},
        name : WindowNames, data : Payloads]

(* passesGuards without the check of the origin *)
passesGuardsNoOrigin(a, event) ==
  /\ event.source # "none"
  /\ event.source # "notself"
  /\ event.name = requestKey(a)

(* passesGuards without the check of the window name *)
passesGuardsNoName(a, event) ==
  /\ ~(Truthy(providerOrigin) /\ event.origin # providerOrigin.value)
  /\ event.source # "none"
  /\ event.source # "notself"

(* The four authenticity guards of callback, in the order of the code. *)
passesGuards(a, event) ==
  /\ ~(Truthy(providerOrigin) /\ event.origin # providerOrigin.value)
  /\ event.source # "none"
  /\ event.source # "notself"
  /\ event.name = requestKey(a)

(* callback without the check that the popup is still open *)
callbackNoClosedCheck(a, event, ls) ==
  IF ~ls.listener[a] THEN ls
  ELSE IF ~passesGuards(a, event) THEN ls
  ELSE [store |-> setItem(ls.store, requestKey(a), event.data),
        listener |-> [ls.listener EXCEPT ![a] = FALSE],
        acks |-> [ls.acks EXCEPT ![a] = @ + 1],
        storageCalls |-> [ls.storageCalls EXCEPT ![a] = @ + 1]]

(* callback relaying the payload without removing itself from the window *)
callbackNoDetach(a, event, ls) ==
  IF ~ls.listener[a] THEN ls
  ELSE IF ~passesGuards(a, event) THEN ls
  ELSE IF loginWindow[a] = "closed"
       THEN [ls EXCEPT !.listener[a] = FALSE]
  ELSE [store |-> setItem(ls.store, requestKey(a), event.data),
        listener |-> ls.listener,
        acks |-> [ls.acks EXCEPT ![a] = @ + 1],
        storageCalls |-> [ls.storageCalls EXCEPT ![a] = @ + 1]]

(* One run of attempt a's callback on the listener state ls =              *)
(* [store, listener, acks, storageCalls]; a detached callback is not run.  *)
callback(a, event, ls) ==
  IF ~ls.listener[a] THEN ls
  ELSE IF ~passesGuards(a, event) THEN ls
  ELSE IF loginWindow[a] = "closed"
       THEN [ls EXCEPT !.listener[a] = FALSE]
  ELSE [store |-> setItem(ls.store, requestKey(a), event.data),
        listener |-> [ls.listener EXCEPT ![a] = FALSE],
        acks |-> [ls.acks EXCEPT ![a] = @ + 1],
        storageCalls |-> [ls.storageCalls EXCEPT ![a] = @ + 1]]

(* dispatch of one message event to the registered callbacks, in the order *)
(* of their registration                                                   *)
RECURSIVE dispatchFrom(_, _, _)
dispatchFrom(a, event, ls) ==
  IF a > MaxAttempts THEN ls
  ELSE dispatchFrom(a + 1, event, callback(a, event, ls))

(* History: a message from a window named by a's key, of the origin the    *)
(* provider declares if it declares one, delivered while a's popup is open *)
Authentic(a, event) ==
  /\ ~providerOrigin.defined \/ event.origin = providerOrigin.value
  /\ event.source = "window"
  /\ event.name = requestKey(a)

(* What the callbacks leave when event is delivered in the current state. *)
afterMessage(event) ==
  dispatchFrom(1, event, [store |-> store, listener |-> listener,
                          acks |-> acks, storageCalls |-> storageCalls])

Message(event) ==
  /\ \E a \in Attempts : listener[a]
  /\ LET ls == afterMessage(event)
     IN /\ store' = ls.store
        /\ listener' = ls.listener
        /\ acks' = ls.acks
        /\ storageCalls' = ls.storageCalls
  /\ authentic' = [a \in Attempts |->
       authentic[a] \/ (loginWindow[a] = "open" /\ Authentic(a, event))]
  /\ ret' = NoValue
  /\ UNCHANGED <<providerOrigin, loginWindow, timer, status, value,
                 extractErrorCalls, extractSessionCalls, uncaught>>

----------------------------------------------------------------------------
(* acquireTokenAsync: the polling loop *)

(* What a run of checkWindow does: the storage it leaves, whether it       *)
(* scheduled a timer, how it settled the promise ("none" when it did not), *)
(* the calls it made of the provider and of Storage and whether an         *)
(* exception left it.  quiet: it did nothing.                              *)
quiet(st) ==
  [store |-> st, timer |-> FALSE, settle |-> "none", value |-> NoValue,
   errorCalls |-> 0, sessionCalls |-> 0, storageCalls |-> 0, threw |-> FALSE]

(* no popup: reject(false) *)
rejectBlocked(st) ==
  [quiet(st) EXCEPT !.settle = "rejected", !.value = RejectFalse]

(* popup still open: check again in 100ms *)
reschedule(st) == [quiet(st) EXCEPT !.timer = TRUE]

(* the payload read but left in the storage *)
readNoRemove(a, st) == [quiet(st) EXCEPT !.storageCalls = 1]

(* popup closed: the payload is read and removed *)
readAndRemove(a, st) ==
  [quiet(removeItem(st, requestKey(a))) EXCEPT !.storageCalls = 2]

(* no payload: the window was closed before the redirect page was reached *)
rejectClosed(cw) == [cw EXCEPT !.settle = "rejected", !.value = ClosedError]

(* rejectError rejecting with the error of the closed window instead of   *)
(* the provider's                                                         *)
rejectErrorAsClosed(cw, redirectUrl) ==
  [cw EXCEPT !.errorCalls = 1, !.settle = "rejected", !.value = ClosedError]

(* rejectError after the session was extracted and stored *)
rejectErrorAfterStore(cw, redirectUrl) ==
  [cw EXCEPT !.store = setItem(cw.store, sessionKey,
                               JSONstringify(extractSession(redirectUrl))),
             !.storageCalls = cw.storageCalls + 1,
             !.errorCalls = 1, !.sessionCalls = 1,
             !.settle = "rejected", !.value = extractError(redirectUrl)]

(* the provider finds an error in the payload *)
rejectError(cw, redirectUrl) ==
  [cw EXCEPT !.errorCalls = 1, !.settle = "rejected",
             !.value = extractError(redirectUrl)]

(* resolveSession resolving with the session that was cached before, when *)
(* there is one, instead of the one just extracted                        *)
resolveSessionCached(cw, redirectUrl) ==
  [cw EXCEPT !.store = setItem(cw.store, sessionKey,
                               JSONstringify(extractSession(redirectUrl))),
             !.storageCalls = cw.storageCalls + 1,
             !.errorCalls = 1, !.sessionCalls = 1,
             !.settle = "resolved",
             !.value = IF getItemIsNonEmptyString(cw.store, sessionKey)
                          /\ ~JSONparseThrows(cw.store[sessionKey])
                       THEN JSONparse(cw.store[sessionKey])
                       ELSE extractSession(redirectUrl)]

(* resolveSession keeping the session that is cached already, if any *)
resolveSessionKeepFirst(cw, redirectUrl) ==
  [cw EXCEPT !.store = IF sessionKey \in DOMAIN cw.store THEN cw.store
                       ELSE setItem(cw.store, sessionKey,
                                    JSONstringify(extractSession(redirectUrl))),
             !.storageCalls = cw.storageCalls + 1,
             !.errorCalls = 1, !.sessionCalls = 1,
             !.settle = "resolved", !.value = extractSession(redirectUrl)]

(* the provider extracts the session: it is stored and resolved with *)
resolveSession(cw, redirectUrl) ==
  [cw EXCEPT !.store = setItem(cw.store, sessionKey,
                               JSONstringify(extractSession(redirectUrl))),
             !.storageCalls = cw.storageCalls + 1,
             !.errorCalls = 1, !.sessionCalls = 1,
             !.settle = "resolved", !.value = extractSession(redirectUrl)]

(* checkWindow going on to the payload as soon as one is relayed, without  *)
(* waiting for the popup to close                                          *)
checkWindowEager(a, w, st, fails) ==
  LET redirectUrl == st[requestKey(a)]
      cw == readAndRemove(a, st)
  IN
  IF w = "null" THEN rejectBlocked(st)
  ELSE IF w # "closed" /\ ~getItemIsNonEmptyString(st, requestKey(a))
    THEN reschedule(st)
  ELSE IF ~getItemIsNonEmptyString(st, requestKey(a)) THEN rejectClosed(cw)
  ELSE IF fails = "extractError"
    THEN [cw EXCEPT !.errorCalls = 1, !.threw = TRUE]
  ELSE IF extractError(redirectUrl) # Undefined
    THEN rejectError(cw, redirectUrl)
  ELSE IF fails = "extractSession"
    THEN [cw EXCEPT !.errorCalls = 1, !.sessionCalls = 1, !.threw = TRUE]
  ELSE resolveSession(cw, redirectUrl)

(* One run of checkWindow(loginWindow) for attempt a, popup state w and    *)
(* storage st; fails: the provider call that throws, if one does.          *)
checkWindow(a, w, st, fails) ==
  LET redirectUrl == st[requestKey(a)]
      cw == readAndRemove(a, st)
  IN
  IF w = "null" THEN rejectBlocked(st)
  ELSE IF w # "closed" THEN reschedule(st)
  ELSE IF ~getItemIsNonEmptyString(st, requestKey(a)) THEN rejectClosed(cw)
  ELSE IF fails = "extractError"
    THEN [cw EXCEPT !.errorCalls = 1, !.threw = TRUE]
  ELSE IF extractError(redirectUrl) # Undefined
    THEN rejectError(cw, redirectUrl)
  ELSE IF fails = "extractSession"
    THEN [cw EXCEPT !.errorCalls = 1, !.sessionCalls = 1, !.threw = TRUE]
  ELSE resolveSession(cw, redirectUrl)

(* The effect of a run of checkWindow on the state.  An exception of the   *)
(* provider leaves a run made by the timer (the run made by the promise    *)
(* executor never gets to the provider: its popup is not closed); it is    *)
(* uncaught, the promise stays pending and no timer is scheduled.          *)
applyCheckWindow(a, cw) ==
  /\ store' = cw.store
  /\ timer' = [timer EXCEPT ![a] = cw.timer]
  /\ extractErrorCalls' = [extractErrorCalls EXCEPT ![a] = @ + cw.errorCalls]
  /\ extractSessionCalls' =
       [extractSessionCalls EXCEPT ![a] = @ + cw.sessionCalls]
  /\ storageCalls' = [storageCalls EXCEPT ![a] = @ + cw.storageCalls]
  /\ status' = [status EXCEPT ![a] =
       IF cw.settle # "none" THEN cw.settle ELSE "pending"]
  /\ value' = [value EXCEPT ![a] =
       IF cw.settle # "none" THEN cw.value ELSE @]
  /\ uncaught' = [uncaught EXCEPT ![a] = cw.threw]

(* localWindow.open: null when the popup is blocked, else a window that is *)
(* open.                                                                   *)
OpenResults == {"null", "open"}

(* the callback registered whether or not there is a popup *)
registersCallbackAlways(w) == TRUE

(* if (loginWindow): the callback is registered only if there is a popup *)
registersCallback(w) == w # "null"

(* acquireTokenAsync resolving at once with the cached session, when the   *)
(* fixed session slot holds one, without opening a popup                   *)
AcquireTokenAsyncCached(a, w) ==
  /\ status[a] = "notcalled"
  /\ \A b \in Attempts : b < a => status[b] # "notcalled"
  /\ IF getItemIsNonEmptyString(store, sessionKey)
        /\ ~JSONparseThrows(store[sessionKey])
     THEN /\ status' = [status EXCEPT ![a] = "resolved"]
          /\ value' = [value EXCEPT ![a] = JSONparse(store[sessionKey])]
          /\ UNCHANGED <<store, loginWindow, listener, timer,
                         extractErrorCalls, extractSessionCalls, uncaught,
                         storageCalls>>
     ELSE /\ loginWindow' = [loginWindow EXCEPT ![a] = w]
          /\ listener' = [listener EXCEPT ![a] = registersCallback(w)]
          /\ applyCheckWindow(a, checkWindow(a, w, store, "none"))
  /\ ret' = NoValue
  /\ UNCHANGED <<providerOrigin, acks, authentic>>

(* A call of acquireTokenAsync up to the return of the promise: open the   *)
(* popup, register the callback if there is a popup, run checkWindow once. *)
AcquireTokenAsync(a, w) ==
  /\ status[a] = "notcalled"
  /\ \A b \in Attempts : b < a => status[b] # "notcalled"
  /\ loginWindow' = [loginWindow EXCEPT ![a] = w]
  /\ listener' = [listener EXCEPT ![a] = registersCallback(w)]
  /\ applyCheckWindow(a, checkWindow(a, w, store, "none"))
  /\ ret' = NoValue
  /\ UNCHANGED <<providerOrigin, acks, authentic>>

(* The 100ms timer of attempt a fires and runs checkWindow. *)
Tick(a, fails) ==
  /\ timer[a]
  /\ applyCheckWindow(a, checkWindow(a, loginWindow[a], store, fails))
  /\ ret' = NoValue
  /\ UNCHANGED <<providerOrigin, loginWindow, listener, acks, authentic>>

(* The popup of attempt a closes (the user closes it, or its page does). *)
ClosePopup(a) ==
  /\ loginWindow[a] = "open"
  /\ loginWindow' = [loginWindow EXCEPT ![a] = "closed"]
  /\ ret' = NoValue
  /\ UNCHANGED <<store, providerOrigin, listener, timer, status, value, acks,
                 extractErrorCalls, extractSessionCalls, uncaught,
                 storageCalls, authentic>>

----------------------------------------------------------------------------
(* The storage backed operations *)

Returned(v) == [how |-> "returned", what |-> v]

Thrown(e) == [how |-> "thrown", what |-> e]

(* restoreSession without the validation: the cached session is returned  *)
(* and kept whatever the provider answers                                 *)
restoreSessionNoValidate(st, valid) ==
  IF ~getItemIsNonEmptyString(st, sessionKey)
    THEN [store |-> st, ret |-> Returned(Undefined)]
  ELSE IF JSONparseThrows(st[sessionKey])
    THEN [store |-> st, ret |-> Thrown(SyntaxError)]
  ELSE [store |-> st, ret |-> Returned(JSONparse(st[sessionKey]))]

(* restoreSession leaving the session the provider refuses in the storage *)
restoreSessionKeepInvalid(st, valid) ==
  IF ~getItemIsNonEmptyString(st, sessionKey)
    THEN [store |-> st, ret |-> Returned(Undefined)]
  ELSE IF JSONparseThrows(st[sessionKey])
    THEN [store |-> st, ret |-> Thrown(SyntaxError)]
  ELSE IF ~valid
    THEN [store |-> st, ret |-> Returned(Undefined)]
  ELSE [store |-> st, ret |-> Returned(JSONparse(st[sessionKey]))]

(* restoreSession, given the answer valid of provider.validateSession:     *)
(* the storage it leaves and how the call ends.                            *)
restoreSession(st, valid) ==
  IF ~getItemIsNonEmptyString(st, sessionKey)
    THEN [store |-> st, ret |-> Returned(Undefined)]
  ELSE IF JSONparseThrows(st[sessionKey])
    THEN [store |-> st, ret |-> Thrown(SyntaxError)]
  ELSE IF ~valid
    THEN [store |-> removeItem(st, sessionKey), ret |-> Returned(Undefined)]
  ELSE [store |-> st, ret |-> Returned(JSONparse(st[sessionKey]))]

RestoreSession(valid) ==
  /\ store' = restoreSession(store, valid).store
  /\ ret' = restoreSession(store, valid).ret
  /\ UNCHANGED <<providerOrigin, loginWindow, listener, timer, status, value,
                 acks, extractErrorCalls, extractSessionCalls, uncaught,
                 storageCalls, authentic>>

(* invalidateSession clearing the whole storage *)
invalidateSessionAll(st) == [k \in {} |-> ""]

invalidateSession(st) == removeItem(st, sessionKey)

InvalidateSession ==
  /\ store' = invalidateSession(store)
  /\ ret' = NoValue
  /\ UNCHANGED <<providerOrigin, loginWindow, listener, timer, status, value,
                 acks, extractErrorCalls, extractSessionCalls, uncaught,
                 storageCalls, authentic>>

ResourceIds == {"api"}

(* getAccessToken returning undefined instead of throwing when no session *)
(* is cached                                                              *)
getAccessTokenSoftFail(st, resourceId) ==
  IF ~getItemIsNonEmptyString(st, sessionKey)
    THEN Returned(Undefined)
  ELSE IF JSONparseThrows(st[sessionKey])
    THEN Thrown(SyntaxError)
  ELSE Returned(providerGetAccessToken(JSONparse(st[sessionKey]), resourceId))

getAccessToken(st, resourceId) ==
  IF ~getItemIsNonEmptyString(st, sessionKey)
    THEN Thrown(NoSessionError(resourceId))
  ELSE IF JSONparseThrows(st[sessionKey])
    THEN Thrown(SyntaxError)
  ELSE Returned(providerGetAccessToken(JSONparse(st[sessionKey]), resourceId))

GetAccessToken(resourceId) ==
  /\ ret' = getAccessToken(store, resourceId)
  /\ UNCHANGED <<store, providerOrigin, loginWindow, listener, timer, status,
                 value, acks, extractErrorCalls, extractSessionCalls, uncaught,
                 storageCalls, authentic>>

----------------------------------------------------------------------------
(* The acquisition protocol, any number of attempts in flight, with        *)
(* invalidateSession besides it.                                           *)
Next ==
  \/ \E a \in Attempts : \E w \in OpenResults : AcquireTokenAsync(a, w)
  \/ \E event \in Events : Message(event)
  \/ \E a \in Attempts : \E fails \in ProviderFailures : Tick(a, fails)
  \/ \E a \in Attempts : ClosePopup(a)
  \/ InvalidateSession

Spec == Init /\ [][Next]_vars

(* setTimeout: a timer that is pending fires; what the provider does in    *)
(* the run of checkWindow it starts is the provider's choice.              *)
Fairness ==
  \A a \in Attempts : WF_vars(\E fails \in ProviderFailures : Tick(a, fails))

SpecLive == Init /\ [][Next]_vars /\ Fairness

(* The operations on the cached session, with the acquisition that writes  *)
(* it: one call of acquireTokenAsync.                                      *)
NextStorage ==
  \/ \E w \in OpenResults : AcquireTokenAsync(1, w)
  \/ \E event \in Events : Message(event)
  \/ \E fails \in ProviderFailures : Tick(1, fails)
  \/ ClosePopup(1)
  \/ \E valid \in BOOLEAN : RestoreSession(valid)
  \/ InvalidateSession
  \/ \E resourceId \in ResourceIds : GetAccessToken(resourceId)

SpecStorage == Init /\ [][NextStorage]_vars

TypeOK ==
  /\ DOMAIN store \subseteq {sessionKey} \cup {requestKey(a) : a \in Attempts}
  /\ \A a \in Attempts :
       /\ loginWindow[a] \in {"none", "null", "open", "closed"}
       /\ status[a] \in {"notcalled", "pending", "resolved", "rejected"}
       /\ acks[a] \in 0..1

----------------------------------------------------------------------------
(* Claims *)

(* A polling tick of attempt a that observes the popup closed and finds a  *)
(* non-empty payload in the correlation-keyed slot.                        *)
ObservesPayload(a, fails) ==
  /\ timer[a]
  /\ loginWindow[a] = "closed"
  /\ requestKey(a) \in DOMAIN store
  /\ store[requestKey(a)] # ""
  /\ ~timer'[a]
  /\ Tick(a, fails)

(* C1: success path.  Whenever a tick observes the popup closed with a     *)
(* non-empty payload for which extractError returns none and from which    *)
(* extractSession produces a session, that step resolves the promise with  *)
(* exactly that session, which is a session (not null or undefined), and   *)
(* the fixed session slot then holds its serialization, which parses back  *)
(* to it.                                                                  *)
C1_SuccessPath ==
  [][\A a \in Attempts :
       (/\ ObservesPayload(a, "none")
        /\ extractError(store[requestKey(a)]) = Undefined)
       => (/\ status'[a] = "resolved"
           /\ value'[a] = extractSession(store[requestKey(a)])
           /\ value'[a] \in Sessions
           /\ sessionKey \in DOMAIN store'
           /\ store'[sessionKey] = JSONstringify(extractSession(store[requestKey(a)]))
           /\ JSONparse(store'[sessionKey]) = value'[a])]_vars

(* An attempt has resolved with SessionB over a slot that held SessionA    *)
(* when the page loaded or that an earlier attempt wrote.                  *)
C1_Witness ==
  \E a \in Attempts :
    /\ status[a] = "resolved"
    /\ value[a] = SessionB
    /\ sessionKey \in DOMAIN store
    /\ store[sessionKey] = JSONstringify(SessionB)

----------------------------------------------------------------------------
(* What a key holds, as a set: empty when the key is absent. *)
Slot(st, k) == IF k \in DOMAIN st THEN {st[k]} ELSE {}

(* C2: message authenticity.  For every message delivered in any reachable *)
(* state and every attempt a: the callbacks write a's correlation-keyed    *)
(* slot only if the provider declares no origin or the message has it, the *)
(* message has a source that is its own self and is named by a's key, and  *)
(* a's popup is not closed, and what they write is the message's payload;  *)
(* a message that fails one of the first four of these leaves a's slot,    *)
(* the acknowledgments sent to a's popup and a's listener as they are, and *)
(* one that fails them for every attempt leaves the storage as it is.      *)
C2_MessageAuthenticity ==
  \A event \in Events : \A after \in {afterMessage(event)} :
    /\ \A a \in Attempts :
         /\ (Slot(after.store, requestKey(a)) # Slot(store, requestKey(a))
             \/ after.storageCalls[a] # storageCalls[a])
            => (/\ Authentic(a, event)
                /\ loginWindow[a] # "closed"
                /\ Slot(after.store, requestKey(a)) = {event.data})
         /\ ~Authentic(a, event)
            => (/\ Slot(after.store, requestKey(a)) = Slot(store, requestKey(a))
                /\ after.acks[a] = acks[a]
                /\ after.listener[a] = listener[a]
                /\ after.storageCalls[a] = storageCalls[a])
    /\ (\A a \in Attempts : ~Authentic(a, event)) => after.store = store

(* A payload was relayed for an attempt of a provider that declares its    *)
(* origin: the slot is written, the popup acknowledged, the listener gone. *)
C2_Witness ==
  \E a \in Attempts :
    /\ providerOrigin.defined
    /\ requestKey(a) \in DOMAIN store
    /\ acks[a] = 1
    /\ ~listener[a]
    /\ status[a] = "pending"

(* An attempt whose popup was opened and whose promise is not settled. *)
InFlight(a) == status[a] = "pending" /\ ~uncaught[a]

(* How the promise of attempt b would settle if its timer fired on storage *)
(* st.                                                                     *)
Outcome(b, st, fails) ==
  LET cw == checkWindow(b, loginWindow[b], st, fails)
  IN <<cw.settle, cw.value, cw.threw>>

(* C3: correlation isolation.  With attempts a and b both in flight, a     *)
(* message whose source is named by a's key leaves b's correlation-keyed   *)
(* slot, b's listener and the acknowledgments to b's popup as they are,    *)
(* and so does a polling tick of a; after either, a tick of b settles b's  *)
(* promise exactly as it would have before.                                *)
C3_CorrelationIsolation ==
  \A a, b \in Attempts :
    (a # b /\ InFlight(a) /\ InFlight(b)) =>
      \A before \in {[fails \in ProviderFailures |-> Outcome(b, store, fails)]} :
      /\ \A event \in Events :
           event.name = requestKey(a) => \A after \in {afterMessage(event)} :
             /\ Slot(after.store, requestKey(b)) = Slot(store, requestKey(b))
             /\ after.listener[b] = listener[b]
             /\ after.acks[b] = acks[b]
             /\ \A fails \in ProviderFailures :
                  Outcome(b, after.store, fails) = before[fails]
      /\ \A failsA \in ProviderFailures :
           \A after \in {checkWindow(a, loginWindow[a], store, failsA)} :
           /\ Slot(after.store, requestKey(b)) = Slot(store, requestKey(b))
           /\ \A fails \in ProviderFailures :
                Outcome(b, after.store, fails) = before[fails]

(* Two attempts in flight, a's payload relayed and b's listener still      *)
(* armed with nothing in b's slot.                                         *)
C3_Witness ==
  \E a, b \in Attempts :
    /\ a # b /\ InFlight(a) /\ InFlight(b)
    /\ requestKey(a) \in DOMAIN store
    /\ listener[b]
    /\ requestKey(b) \notin DOMAIN store

(* The tick of attempt a that observes its popup closed: the pending timer *)
(* fires and is not scheduled again.                                       *)
ObservesClosed(a) ==
  timer[a] /\ loginWindow[a] = "closed" /\ ~timer'[a]

(* C4: cancel.  While the popup of an attempt is closed and no authentic   *)
(* message was delivered while it was open, the attempt is pending or      *)
(* rejected with the 'login window was closed' error, never resolved, the  *)
(* provider's extractError and extractSession were not called and the      *)
(* correlation-keyed slot is absent; the tick that observes the closure    *)
(* rejects with that error.                                                *)
C4_CancelState ==
  \A a \in Attempts :
    (loginWindow[a] = "closed" /\ ~authentic[a]) =>
      /\ status[a] \in {"pending", "rejected"}
      /\ status[a] = "rejected" => value[a] = ClosedError
      /\ ~uncaught[a]
      /\ extractErrorCalls[a] = 0
      /\ extractSessionCalls[a] = 0
      /\ requestKey(a) \notin DOMAIN store

C4_Cancel ==
  /\ []C4_CancelState
  /\ [][\A a \in Attempts :
          (ObservesClosed(a) /\ ~authentic[a])
          => (status'[a] = "rejected" /\ value'[a] = ClosedError)]_vars

(* An attempt rejected as cancelled, a message having come for it only     *)
(* after its popup closed.                                                 *)
C4_Witness ==
  \E a \in Attempts :
    /\ status[a] = "rejected"
    /\ value[a] = ClosedError
    /\ ~authentic[a]
    /\ ~listener[a]

(* C5: popup blocked.  An attempt whose open returned null is rejected     *)
(* with false, which is neither the 'login window was closed' error nor an *)
(* error of the provider; it has no timer, no listener, made no call of    *)
(* the storage and none of the provider.                                   *)
C5_PopupBlocked ==
  \A a \in Attempts :
    loginWindow[a] = "null" =>
      /\ status[a] = "rejected"
      /\ value[a] = RejectFalse
      /\ value[a] # ClosedError
      /\ \A p \in Payloads : value[a] # extractError(p)
      /\ ~timer[a]
      /\ ~listener[a]
      /\ storageCalls[a] = 0
      /\ extractErrorCalls[a] = 0
      /\ extractSessionCalls[a] = 0

(* A blocked attempt beside one whose popup opened. *)
C5_Witness ==
  \E a, b \in Attempts :
    /\ loginWindow[a] = "null" /\ status[a] = "rejected"
    /\ loginWindow[b] = "open" /\ listener[b]

(* C6: provider error.  A tick that observes the popup closed with a       *)
(* payload in which extractError finds an error rejects with exactly that  *)
(* error, does not call extractSession and leaves the fixed session slot   *)
(* as it was.                                                              *)
C6_ProviderError ==
  [][\A a \in Attempts : \A fails \in {"none", "extractSession"} :
       (/\ ObservesPayload(a, fails)
        /\ extractError(store[requestKey(a)]) # Undefined)
       => (/\ status'[a] = "rejected"
           /\ value'[a] = extractError(store[requestKey(a)])
           /\ extractSessionCalls'[a] = extractSessionCalls[a]
           /\ Slot(store', sessionKey) = Slot(store, sessionKey))]_vars

(* An attempt rejected with the provider's error, a cached session still   *)
(* in the fixed slot.                                                      *)
C6_Witness ==
  \E a \in Attempts :
    /\ status[a] = "rejected"
    /\ value[a] = extractError(PayloadDenied)
    /\ extractSessionCalls[a] = 0
    /\ Slot(store, sessionKey) = {JSONstringify(SessionA)}

(* The fixed session slot holds a session. *)
HoldsSession(st) ==
  getItemIsNonEmptyString(st, sessionKey) /\ ~JSONparseThrows(st[sessionKey])

(* The step in which acquireTokenAsync is called for attempt a. *)
Called(a) == status[a] = "notcalled" /\ status'[a] # "notcalled"

C8_OneSession ==
  \A k \in DOMAIN store :
    \/ k = sessionKey
    \/ (\E a \in Attempts : k = requestKey(a)) /\ JSONparseThrows(store[k])

C8_Overwrite ==
  /\ []C8_OneSession
  /\ [][/\ \A a \in Attempts :
             (status'[a] = "resolved" /\ status[a] # "resolved")
             => Slot(store', sessionKey) = {JSONstringify(value'[a])}
        /\ (\A a \in Attempts : status'[a] = "resolved" => status[a] = "resolved")
             => Slot(store', sessionKey) \in {Slot(store, sessionKey), {}}]_vars

(* Two acquisitions resolved with different sessions, the slot holding the *)
(* second one's.                                                           *)
C8_Witness ==
  \E a, b \in Attempts :
    /\ status[a] = "resolved" /\ value[a] = SessionA
    /\ status[b] = "resolved" /\ value[b] = SessionB
    /\ Slot(store, sessionKey) = {JSONstringify(SessionB)}
    /\ \A k \in DOMAIN store : k = sessionKey

C10_SelfHealing ==
  [][\A valid \in BOOLEAN :
       (/\ getItemIsNonEmptyString(store, sessionKey)
        /\ JSONparseThrows(store[sessionKey])
        /\ RestoreSession(valid))
       => (ret' = Returned(Undefined) /\ sessionKey \notin DOMAIN store')]_vars

C12_InvalidateStep ==
  InvalidateSession
  => (/\ sessionKey \notin DOMAIN store'
      /\ DOMAIN store' = DOMAIN store \ {sessionKey}
      /\ \A k \in DOMAIN store' : store'[k] = store[k]
      /\ \A valid \in BOOLEAN :
           restoreSession(store', valid) =
             [store |-> store', ret |-> Returned(Undefined)]
      /\ \A resourceId \in ResourceIds :
           getAccessToken(store', resourceId) = Thrown(NoSessionError(resourceId))
      /\ invalidateSession(store') = store')

C12_InvalidateNeverFails ==
  /\ [](ENABLED InvalidateSession)
  /\ [][C12_InvalidateStep]_vars

(* The session an acquisition stored was invalidated while the relayed     *)
(* payload of another attempt, still in flight, is in the storage.         *)
C12_Witness ==
  \E a, b \in Attempts :
    /\ status[a] = "resolved"
    /\ sessionKey \notin DOMAIN store
    /\ status[b] = "pending"
    /\ requestKey(b) \in DOMAIN store

(* How a call of restoreSession can end. *)
RestoreResults ==
  {Returned(Undefined), Thrown(SyntaxError)} \cup {Returned(s) : s \in Sessions}

SlotWritten(a) ==
  /\ requestKey(a) \in DOMAIN store'
  /\ requestKey(a) \in DOMAIN store => store'[requestKey(a)] # store[requestKey(a)]

(* C14: at most one relay per attempt.  The popup of an attempt is         *)
(* acknowledged at most once; its correlation-keyed slot is written only   *)
(* in the step that sends the acknowledgment, which finds the listener     *)
(* armed and the slot absent and detaches the listener; a detached         *)
(* listener is never armed again, and from then on no step, whatever       *)
(* message it delivers, writes the slot or acknowledges.                   *)
C14_Step ==
  \A a \in Attempts :
    /\ acks'[a] \in {acks[a], acks[a] + 1}
    /\ acks'[a] <= 1
    /\ (acks'[a] # acks[a]) <=> SlotWritten(a)
    /\ SlotWritten(a)
       => (/\ listener[a] /\ ~listener'[a]
           /\ requestKey(a) \notin DOMAIN store
           /\ storageCalls'[a] = storageCalls[a] + 1)
    /\ (~listener[a] /\ status[a] # "notcalled")
       => (~listener'[a] /\ acks'[a] = acks[a] /\ ~SlotWritten(a))

C14_OneRelay == [][C14_Step]_vars

(* An attempt has relayed its payload and its popup is still open, while   *)
(* the listener of another attempt keeps messages coming.                  *)
C14_Witness ==
  \E a, b \in Attempts :
    /\ acks[a] = 1 /\ ~listener[a] /\ loginWindow[a] = "open"
    /\ requestKey(a) \in DOMAIN store
    /\ authentic[a]
    /\ a # b /\ listener[b]

(* C15 as claimed: (a) whenever a message that passes the guards is        *)
(* delivered while the popup is open, the slot then holds that message's   *)
(* payload, and an attempt that got such a message is not rejected as      *)
(* cancelled; (b) while the popup is closed no message is stored, and once *)
(* the closure was observed the slot is absent.                            *)
C15_Race ==
  \A a \in Attempts :
    /\ authentic[a] => ~(status[a] = "rejected" /\ value[a] = ClosedError)
    /\ \A event \in Events :
         /\ (Authentic(a, event) /\ loginWindow[a] = "open")
            => Slot(afterMessage(event).store, requestKey(a)) = {event.data}
         /\ loginWindow[a] = "closed"
            => Slot(afterMessage(event).store, requestKey(a))
                 = Slot(store, requestKey(a))
    /\ (loginWindow[a] = "closed" /\ ~timer[a])
       => requestKey(a) \notin DOMAIN store

(* C15, amended: (a) the first message that passes the guards while the    *)
(* popup is open (the listener is still armed) is stored; its payload      *)
(* stays in the slot until the tick that observes the popup closed reads   *)
(* and removes it, and that tick does not reject as cancelled unless the   *)
(* payload is the empty string; (b) while the popup is closed no step      *)
(* writes the slot, and once the closure was observed the slot is absent.  *)
C15_RaceState ==
  \A a \in Attempts :
    /\ (loginWindow[a] = "open" /\ listener[a])
       => \A event \in Events :
            Authentic(a, event)
            => Slot(afterMessage(event).store, requestKey(a)) = {event.data}
    /\ (loginWindow[a] = "closed" /\ ~timer[a])
       => requestKey(a) \notin DOMAIN store

C15_RaceStep ==
  \A a \in Attempts :
    /\ requestKey(a) \in DOMAIN store
       => \/ Slot(store', requestKey(a)) = Slot(store, requestKey(a))
          \/ /\ ObservesClosed(a)
             /\ requestKey(a) \notin DOMAIN store'
             /\ store[requestKey(a)] # ""
                => /\ ~(status'[a] = "rejected" /\ value'[a] = ClosedError)
                   /\ status'[a] = "resolved"
                      => value'[a] = extractSession(store[requestKey(a)])
                   /\ status'[a] = "rejected"
                      => value'[a] = extractError(store[requestKey(a)])
             /\ store[requestKey(a)] = ""
                => (status'[a] = "rejected" /\ value'[a] = ClosedError)
    /\ loginWindow[a] = "closed" => ~SlotWritten(a)

C15_RaceTolerated == []C15_RaceState /\ [][C15_RaceStep]_vars

(* The payload was relayed while the popup was open, the popup has closed  *)
(* and the tick that will read the payload is still to come.               *)
C15_Witness ==
  \E a \in Attempts :
    /\ authentic[a]
    /\ loginWindow[a] = "closed"
    /\ timer[a]
    /\ Slot(store, requestKey(a)) = {PayloadB}

Settled(a) == status[a] \in {"resolved", "rejected"}

(* C16 as claimed: liveness of acquisition.  With the polling timer firing *)
(* whenever it is pending, the promise of every attempt whose popup is     *)
(* closed is eventually resolved or rejected, whatever was relayed and     *)
(* whatever the provider does with it, failing included.                   *)
C16_Liveness ==
  \A a \in Attempts : (loginWindow[a] = "closed") ~> Settled(a)

(* C17 as claimed: no timeout and no early settlement.  While the popup of *)
(* an attempt is open, or a tick is still to observe it closed, the        *)
(* promise is pending; a run of checkWindow that finds the popup open only *)
(* schedules a tick; an attempt that is not settled has a timer pending    *)
(* and a settled one has none.                                             *)
C17_NoTimeout ==
  \A a \in Attempts :
    /\ (loginWindow[a] = "open" \/ timer[a]) => status[a] = "pending"
    /\ loginWindow[a] = "open"
       => \A fails \in ProviderFailures :
            checkWindow(a, loginWindow[a], store, fails) = reschedule(store)
    /\ status[a] = "pending" => timer[a]
    /\ Settled(a) => ~timer[a]

(* C18: correlation-slot lifecycle.  The correlation-keyed slot of a       *)
(* settled attempt is absent and no step writes it again; the slot is      *)
(* removed, and the storage read, only by the tick that observes the popup *)
(* closed, which an attempt has at most once: an attempt settled by it     *)
(* made, besides the relay, exactly one read and one removal of the slot   *)
(* (and one write of the session if it resolved).                          *)
C18_SlotState ==
  \A a \in Attempts :
    Settled(a) =>
      /\ requestKey(a) \notin DOMAIN store
      /\ loginWindow[a] = "closed"
         => storageCalls[a] =
              acks[a] + 2 + (IF status[a] = "resolved" THEN 1 ELSE 0)
      /\ loginWindow[a] = "null" => storageCalls[a] = 0

C18_SlotStep ==
  \A a \in Attempts :
    /\ Settled(a) => (~SlotWritten(a) /\ requestKey(a) \notin DOMAIN store')
    /\ (requestKey(a) \in DOMAIN store /\ requestKey(a) \notin DOMAIN store')
       => ObservesClosed(a)
    /\ storageCalls'[a] >= storageCalls[a] + 2 => ObservesClosed(a)
    /\ ObservesClosed(a)
       => (/\ requestKey(a) \notin DOMAIN store'
           /\ storageCalls'[a] >= storageCalls[a] + 2)
    /\ (~timer[a] /\ status[a] # "notcalled") => ~timer'[a]

C18_SlotLifecycle == []C18_SlotState /\ [][C18_SlotStep]_vars

(* An attempt was rejected as cancelled and its listener is still armed:   *)
(* messages named by its key can still arrive.                             *)
C18_Witness ==
  \E a \in Attempts :
    /\ status[a] = "rejected" /\ value[a] = ClosedError
    /\ loginWindow[a] = "closed"
    /\ listener[a]
    /\ storageCalls[a] = 2
    /\ requestKey(a) \notin DOMAIN store

(* C19 as claimed: listener lifetime.  Once the promise of an attempt has  *)
(* settled, no listener of that attempt is registered on the host window.  *)
C19_ListenerLifetime ==
  \A a \in Attempts : Settled(a) => ~listener[a]

(* C20: the session slot is written only on success.  A step that changes  *)
(* what the fixed session slot holds to a value resolves a pending         *)
(* attempt, after one call of extractError and one of extractSession, and  *)
(* the value is the serialization of the session resolved with; any other  *)
(* step of the acquisition (the call, a message, a tick that reschedules,  *)
(* rejects or ends in an exception, the closing of the popup) leaves the   *)
(* slot exactly as it was; the slot is removed only by invalidateSession.  *)
Resolves(a) == status[a] = "pending" /\ status'[a] = "resolved"

C20_Step ==
  /\ (sessionKey \in DOMAIN store'
      /\ Slot(store', sessionKey) # Slot(store, sessionKey))
     => \E a \in Attempts :
          /\ Resolves(a)
          /\ extractErrorCalls'[a] = extractErrorCalls[a] + 1
          /\ extractSessionCalls'[a] = extractSessionCalls[a] + 1
          /\ value'[a] \in Sessions
          /\ store'[sessionKey] = JSONstringify(value'[a])
  /\ \A a \in Attempts :
       (Called(a) \/ (status'[a] = "rejected" /\ status[a] # "rejected")
                  \/ (uncaught'[a] /\ ~uncaught[a]))
       => Slot(store', sessionKey) = Slot(store, sessionKey)
  /\ ((\A a \in Attempts : ~Resolves(a)) /\ ~InvalidateSession)
     => Slot(store', sessionKey) = Slot(store, sessionKey)
  /\ (sessionKey \in DOMAIN store /\ sessionKey \notin DOMAIN store')
     => InvalidateSession

C20_WrittenOnlyOnSuccess == [][C20_Step]_vars

(* The session one attempt stored has survived the blocked popup of        *)
(* another attempt.                                                        *)
C20_Witness ==
  \E a, b \in Attempts :
    /\ status[a] = "resolved" /\ value[a] = SessionA
    /\ status[b] = "rejected" /\ value[b] = RejectFalse
    /\ a < b
    /\ Slot(store, sessionKey) = {JSONstringify(SessionA)}

====
